---- MODULE Spec2Model ----
(***************************************************************************)
(* Model of the two hardware-codec probe utilities of widget/gtk:          *)
(*   v4l2test  (widget/gtk/v4l2test/v4l2test.cpp)  probes a V4L2 device    *)
(*   mpptest   (widget/gtk/mpptest/mpptest.cpp)    probes librockchip_mpp  *)
(* One behaviour of the model is one run of one of the two programs.  The  *)
(* device, the driver and the library are the environment: the device is   *)
(* drawn in Init, the results of open/QUERYCAP/dlopen/dlsym and of the     *)
(* library's entry points are drawn at the call.                           *)
(***************************************************************************)
EXTENDS Integers, Sequences, FiniteSets, TLC

VARIABLES
  prog,        \* which program this run is: "v4l2test" or "mpptest"
  pc,          \* position of the run in main / v4l2_check_device
  dev,         \* the device behind the path (environment, fixed per run)
  device,      \* v4l2test main: `device` is non-null (a path was given)
  fd,          \* v4l2_check_device: fd
  result,      \* v4l2_check_device / v4l2_supported_fmts: last ioctl result
  cap,         \* v4l2_check_device: cap, as filled in by VIDIOC_QUERYCAP
  site,        \* which call of v4l2_supported_fmts is active
  fmt,         \* v4l2_supported_fmts: fmt.type and fmt.index
  supported,   \* v4l2_supported_fmts: supported; mpptest main: supported
  Mpp,         \* mpptest: library handle (0 is null)
  bound,       \* mpptest: how many of MppCreate..MppDestroy are resolved
  i,           \* mpptest main: loop variable
  mppctx,      \* mpptest main: mppctx of this iteration (0 is null)
  calls,       \* history: calls made to the OS, the driver and the library,
               \* each <<name, argument, result>>
  out,         \* records handed to record_value / record_error
  flushes,     \* number of record_flush calls
  exitStatus   \* exit status of the process (-1 while running)

vars == <<prog, pc, dev, device, fd, result, cap, site, fmt, supported, Mpp,
          bound, i, mppctx, calls, out, flushes, exitStatus>>

v4l2vars == <<dev, device, fd, result, cap, site, fmt>>
mppvars == <<Mpp, bound, i, mppctx>>

----------------------------------------------------------------------------
(* Bounds of the model *)

\* longest format list a driver reports on the capture queue
MaxCaptureFmts == 2
\* longest format list a driver reports on the output queue
MaxOutputFmts == 1

\* fmt.index is a __u32 and wraps; the model wraps it beyond every finite
\* format list, so that a driver that never fails is a finite-state loop.
IndexModulus == MaxCaptureFmts + MaxOutputFmts + 2

\* the call history stops growing at this length (only a run that never
\* leaves the enumeration loop gets there)
LogCap == 30 + MaxCaptureFmts + MaxOutputFmts

----------------------------------------------------------------------------
(* Program constants *)

CODEC_HW_H264 == 16
CODEC_HW_VP8 == 32
CODEC_HW_VP9 == 64
CODEC_HW_AV1 == 128

EXIT_SUCCESS == 0
EXIT_FAILURE == 1

V4L2_BUF_TYPE_VIDEO_CAPTURE == 1
V4L2_BUF_TYPE_VIDEO_OUTPUT == 2
V4L2_BUF_TYPE_VIDEO_CAPTURE_MPLANE == 9
V4L2_BUF_TYPE_VIDEO_OUTPUT_MPLANE == 10

\* pixel formats a driver may list; VP8 stands for every format the switch
\* of v4l2_supported_fmts has no active case for
PixelFormats == {"H264", "NV12", "YVU420", "VP8"}

hwaccelsSwapped == <<CODEC_HW_H264, CODEC_HW_VP9, CODEC_HW_VP8, CODEC_HW_AV1>>
hwaccels == <<CODEC_HW_H264, CODEC_HW_VP8, CODEC_HW_VP9, CODEC_HW_AV1>>

mppcodings == <<"AVC", "VP8", "VP9", "AV1">>

symbols == <<"mpp_create", "mpp_check_support_format", "mpp_init", "mpp_destroy">>
bindNames == <<"MppCreate", "MppCheck", "MppInit", "MppDestroy">>

----------------------------------------------------------------------------
(* Helpers *)

RECURSIVE BitOr(_, _)
BitOr(a, b) ==
  IF a = 0 THEN b
  ELSE IF b = 0 THEN a
  ELSE (IF a % 2 = 1 \/ b % 2 = 1 THEN 1 ELSE 0) + 2 * BitOr(a \div 2, b \div 2)

SeqsUpTo(S, n) == UNION {[1..k -> S] : k \in 0..n}

Log(c) == IF Len(calls) < LogCap THEN Append(calls, c) ELSE calls

\* record_value / record_error: one record appended to the result buffer
Rec(key, text, num) == [key |-> key, text |-> text, num |-> num]
record_error(msg) == Append(out, Rec("ERROR", msg, 0))

----------------------------------------------------------------------------
(* v4l2test *)

\* the driver's answer to VIDIOC_ENUM_FMT for queue `list` at index idx:
\* "" when the query fails (index past the end of the list)
DriverFmt(list, idx) ==
  IF dev.endless THEN list[(idx % Len(list)) + 1]
  ELSE IF idx < Len(list) THEN list[idx + 1]
  ELSE ""

QueueOf(type) ==
  IF type \in {V4L2_BUF_TYPE_VIDEO_CAPTURE, V4L2_BUF_TYPE_VIDEO_CAPTURE_MPLANE}
  THEN dev.capture ELSE dev.output

\* the switch of v4l2_supported_fmts
SwitchPixelformat(sup, pixelformat) ==
  CASE pixelformat = "H264" -> BitOr(sup, CODEC_HW_H264)
    [] pixelformat = "NV12" -> 1
    [] pixelformat = "YVU420" -> 1
    [] OTHER -> sup

\* if (result < 0) in the loop of v4l2_supported_fmts
EnumQueryNeverFails(res) == res < -1
EnumQueryFailed(res) == res < 0

\* the scope-exit of v4l2_check_device: the close() calls it makes
autoReleaseAlways(f) == <<<<"close", 0, f>>>>
autoRelease(f) == IF f >= 0 THEN <<<<"close", 0, f>>>> ELSE <<>>

LogAll(cs) ==
  IF Len(calls) + Len(cs) <= LogCap THEN calls \o cs ELSE calls

\* return from v4l2_check_device: the scope-exit runs, main goes on
CheckDeviceReturn(f) ==
  /\ calls' = LogAll(autoRelease(f))
  /\ pc' = "flush"

HasDeviceCaps(c) == "DEVICE_CAPS" \in c.capabilities
HasStreamingAlways(c) == TRUE
HasStreaming(c) == "STREAMING" \in c.device_caps
Splane(c) == "VIDEO_M2M" \in c.device_caps
Mplane(c) == "VIDEO_M2M_MPLANE" \in c.device_caps

CaptureType(c) ==
  IF Mplane(c) THEN V4L2_BUF_TYPE_VIDEO_CAPTURE_MPLANE
  ELSE V4L2_BUF_TYPE_VIDEO_CAPTURE
OutputType(c) ==
  IF Mplane(c) THEN V4L2_BUF_TYPE_VIDEO_OUTPUT_MPLANE
  ELSE V4L2_BUF_TYPE_VIDEO_OUTPUT

\* the test on the capture enumeration's return value
CaptureRejectedBelowMinusOne(ret) == ret < -1
CaptureRejected(ret) == ret <= 0

NoDevice ==
  [capabilities |-> {}, device_caps |-> {}, capture |-> <<>>, output |-> <<>>,
   endless |-> FALSE]
NoCap == [capabilities |-> {}, device_caps |-> {}]
NoFmt == [type |-> 0, index |-> 0]

Devices ==
  {d \in [capabilities : SUBSET {"DEVICE_CAPS"},
          device_caps : SUBSET {"STREAMING", "VIDEO_M2M", "VIDEO_M2M_MPLANE"},
          capture : SeqsUpTo(PixelFormats, MaxCaptureFmts),
          output : SeqsUpTo(PixelFormats, MaxOutputFmts),
          endless : BOOLEAN] :
     d.endless => (d.capture # <<>> /\ d.output # <<>>)}

\* main of v4l2test: option parsing, then the probe or the usage text
V4L2Main ==
  /\ prog = "v4l2test" /\ pc = "main"
  /\ IF device
     THEN /\ pc' = "open"
          /\ UNCHANGED exitStatus
     ELSE /\ pc' = "exit"
          /\ exitStatus' = 0
  /\ UNCHANGED <<prog, v4l2vars, supported, mppvars, calls, out, flushes>>

\* v4l2_check_device, open
V4L2Open ==
  /\ prog = "v4l2test" /\ pc = "open"
  /\ \E newfd \in {-1, 3} :
       /\ fd' = newfd
       /\ IF newfd < 0
          THEN /\ out' = record_error("V4L2 failed to open device")
               /\ calls' = LogAll(<<<<"open", 0, newfd>>>> \o autoRelease(newfd))
               /\ pc' = "flush"
          ELSE /\ out' = out
               /\ calls' = Log(<<"open", 0, newfd>>)
               /\ pc' = "querycap"
  /\ UNCHANGED <<prog, dev, device, result, cap, site, fmt, supported, mppvars,
                 flushes, exitStatus>>

\* v4l2_check_device, VIDIOC_QUERYCAP
V4L2QueryCap ==
  /\ prog = "v4l2test" /\ pc = "querycap"
  /\ \E res \in {-1, 0} :
       /\ result' = res
       /\ IF res < 0
          THEN /\ out' = record_error("V4L2 device failed to query capabilities")
               /\ calls' = LogAll(<<<<"VIDIOC_QUERYCAP", 0, res>>>> \o autoRelease(fd))
               /\ pc' = "flush"
               /\ cap' = cap
          ELSE /\ out' = out
               /\ calls' = Log(<<"VIDIOC_QUERYCAP", 0, res>>)
               /\ cap' = [capabilities |-> dev.capabilities,
                          device_caps |-> dev.device_caps]
               /\ pc' = "caps"
  /\ UNCHANGED <<prog, dev, device, fd, site, fmt, supported, mppvars, flushes,
                 exitStatus>>

\* v4l2_check_device, the capability checks and the call of
\* v4l2_supported_fmts for the capture queue
V4L2CheckCaps ==
  /\ prog = "v4l2test" /\ pc = "caps"
  /\ IF ~HasDeviceCaps(cap)
     THEN /\ out' = record_error("V4L2 device does not support DEVICE_CAPS")
          /\ CheckDeviceReturn(fd)
          /\ UNCHANGED <<site, fmt, supported>>
     ELSE IF ~HasStreaming(cap)
     THEN /\ out' = record_error("V4L2 device does not support V4L2_CAP_STREAMING")
          /\ CheckDeviceReturn(fd)
          /\ UNCHANGED <<site, fmt, supported>>
     ELSE IF ~Splane(cap) /\ ~Mplane(cap)
     THEN /\ out' = record_error("V4L2 device does not support M2M modes")
          /\ CheckDeviceReturn(fd)
          /\ UNCHANGED <<site, fmt, supported>>
     ELSE /\ site' = "capture"
          /\ fmt' = [type |-> CaptureType(cap), index |-> 0]
          /\ supported' = 0
          /\ pc' = "enum"
          /\ UNCHANGED <<out, calls>>
  /\ UNCHANGED <<prog, dev, device, fd, result, cap, mppvars, flushes, exitStatus>>

\* v4l2_supported_fmts, one iteration of the loop
V4L2EnumFmt ==
  /\ prog = "v4l2test" /\ pc = "enum"
  /\ LET pixelformat == DriverFmt(QueueOf(fmt.type), fmt.index)
         res == IF pixelformat = "" THEN -1 ELSE 0
     IN  /\ result' = res
         /\ calls' = Log(<<"VIDIOC_ENUM_FMT", <<fmt.type, fmt.index>>, res>>)
         /\ IF EnumQueryFailed(res)
            THEN /\ supported' = res
                 /\ pc' = "enum_ret"
                 /\ fmt' = fmt
            ELSE /\ supported' = SwitchPixelformat(supported, pixelformat)
                 /\ fmt' = [fmt EXCEPT !.index = (fmt.index + 1) % IndexModulus]
                 /\ pc' = "enum"
  /\ UNCHANGED <<prog, dev, device, fd, cap, site, mppvars, out, flushes, exitStatus>>

\* v4l2_check_device, what follows the return of v4l2_supported_fmts
V4L2EnumReturn ==
  /\ prog = "v4l2test" /\ pc = "enum_ret"
  /\ IF site = "capture"
     THEN IF CaptureRejected(supported)
          THEN /\ out' = record_error("V4L2 device does not support NV12 or YV12 capture formats")
               /\ CheckDeviceReturn(fd)
               /\ UNCHANGED <<site, fmt, supported, exitStatus>>
          ELSE /\ site' = "output"
               /\ fmt' = [type |-> OutputType(cap), index |-> 0]
               /\ supported' = 0
               /\ pc' = "enum"
               /\ UNCHANGED <<out, calls, exitStatus>>
     ELSE \* hwcodecs = supported; "HWCODECS\n%s\n" formats the int hwcodecs
          \* with %s, which is undefined: the process is killed by a signal
          \* or the record carries undefined text
          \E ub \in {"crash", "text"} :
            /\ UNCHANGED <<site, fmt, supported>>
            /\ IF ub = "crash"
               THEN /\ out' = Append(out, Rec("SUPPORTED", "TRUE", 0))
                    /\ calls' = calls
                    /\ pc' = "exit"
                    /\ exitStatus' = 139
               ELSE /\ out' = out \o <<Rec("SUPPORTED", "TRUE", 0),
                                       Rec("HWCODECS", "undefined", supported)>>
                    /\ CheckDeviceReturn(fd)
                    /\ UNCHANGED exitStatus
  /\ UNCHANGED <<prog, dev, device, fd, result, cap, mppvars, flushes>>

\* main of v4l2test after v4l2_check_device: record_flush, return EXIT_SUCCESS
V4L2Flush ==
  /\ prog = "v4l2test" /\ pc = "flush"
  /\ flushes' = flushes + 1
  /\ exitStatus' = EXIT_SUCCESS
  /\ pc' = "exit"
  /\ UNCHANGED <<prog, v4l2vars, supported, mppvars, calls, out>>

----------------------------------------------------------------------------
(* mpptest *)

\* fail(): the dlclose() calls it makes
failNoDlclose(mpp) == <<>>
failDlclose(mpp) == IF mpp # 0 THEN <<<<"dlclose", 0, 0>>>> ELSE <<>>

\* the value fail() returns, which main returns
failReturnSuccess == EXIT_SUCCESS
failReturn == EXIT_FAILURE

\* fail(msg): ERROR record, dlclose if loaded, record_flush, EXIT_FAILURE
fail(msg, mpp, first) ==
  /\ out' = Append(out, Rec("ERROR", msg, 0))
  /\ calls' = LogAll(<<first>> \o failDlclose(mpp))
  /\ flushes' = flushes + 1
  /\ exitStatus' = failReturn
  /\ pc' = "exit"

\* the calls made for a candidate whose create, check and init succeeded
SuccessCallsDestroyFirst(k) == <<<<"mpp_destroy", k, 0>>, <<"reset", k, 0>>>>
SuccessCalls(k) == <<<<"reset", k, 0>>, <<"mpp_destroy", k, 0>>>>

NumCodings == Len(mppcodings)

\* main of mpptest, dlopen
MppDlopen ==
  /\ prog = "mpptest" /\ pc = "dlopen"
  /\ \E h \in {0, 1} :
       /\ Mpp' = h
       /\ IF h = 0
          THEN fail("Can not load mpp library", h, <<"dlopen", 0, h>>)
          ELSE /\ pc' = "dlsym"
               /\ calls' = Log(<<"dlopen", 0, h>>)
               /\ UNCHANGED <<out, flushes, exitStatus>>
  /\ UNCHANGED <<prog, v4l2vars, supported, bound, i, mppctx>>

\* main of mpptest, one dlsym and its test (MppCreate, MppCheck, MppInit,
\* MppDestroy in this order)
MppDlsym ==
  /\ prog = "mpptest" /\ pc = "dlsym"
  /\ LET k == bound + 1 IN
     \E sym \in {0, 1} :
       IF sym = 0
       THEN /\ fail("Can not bind " \o bindNames[k], Mpp, <<"dlsym", symbols[k], sym>>)
            /\ UNCHANGED bound
       ELSE /\ bound' = k
            /\ calls' = Log(<<"dlsym", symbols[k], sym>>)
            /\ pc' = IF k = Len(symbols) THEN "loop" ELSE "dlsym"
            /\ UNCHANGED <<out, flushes, exitStatus>>
  /\ UNCHANGED <<prog, v4l2vars, supported, Mpp, i, mppctx>>

\* main of mpptest, the loop test, and MppCreate for candidate i; after the
\* last candidate the report, dlclose, record_flush and EXIT_SUCCESS
MppLoop ==
  /\ prog = "mpptest" /\ pc = "loop"
  /\ IF i < NumCodings
     THEN \E r \in {0, -1} :
            /\ calls' = Log(<<"mpp_create", mppcodings[i + 1], r>>)
            /\ IF r # 0
               THEN /\ mppctx' = 0
                    /\ i' = i + 1
                    /\ pc' = "loop"
               ELSE /\ mppctx' = i + 1
                    /\ pc' = "check"
                    /\ UNCHANGED i
            /\ UNCHANGED <<out, flushes, exitStatus>>
     ELSE /\ out' = out \o <<Rec("SUPPORTED", IF supported # 0 THEN "TRUE" ELSE "FALSE", 0),
                              Rec("HWCODECS", "", supported)>>
          /\ calls' = Log(<<"dlclose", 0, 0>>)
          /\ flushes' = flushes + 1
          /\ exitStatus' = EXIT_SUCCESS
          /\ pc' = "exit"
          /\ UNCHANGED <<i, mppctx>>
  /\ UNCHANGED <<prog, v4l2vars, supported, Mpp, bound>>

\* MppCheck(MPP_CTX_DEC, mppcodings[i])
MppCheckFormat ==
  /\ prog = "mpptest" /\ pc = "check"
  /\ \E r \in {0, -1} :
       /\ calls' = Log(<<"mpp_check_support_format", mppcodings[i + 1], r>>)
       /\ IF r # 0
          THEN /\ i' = i + 1
               /\ pc' = "loop"
          ELSE /\ pc' = "init"
               /\ UNCHANGED i
  /\ UNCHANGED <<prog, v4l2vars, supported, Mpp, bound, mppctx, out, flushes,
                 exitStatus>>

\* MppInit(mppctx, MPP_CTX_DEC, mppcodings[i]) and, when it succeeds, the
\* rest of the iteration: the bit, mpi->reset, MppDestroy
MppInitContext ==
  /\ prog = "mpptest" /\ pc = "init"
  /\ \E r \in {0, -1} :
       IF r # 0
       THEN /\ calls' = Log(<<"mpp_init", mppcodings[i + 1], r>>)
            /\ UNCHANGED supported
       ELSE /\ supported' = BitOr(supported, hwaccels[i + 1])
            /\ calls' = LogAll(<<<<"mpp_init", mppcodings[i + 1], r>>>>
                                \o SuccessCalls(mppcodings[mppctx]))
  /\ i' = i + 1
  /\ pc' = "loop"
  /\ UNCHANGED <<prog, v4l2vars, Mpp, bound, mppctx, out, flushes, exitStatus>>

----------------------------------------------------------------------------
(* The runs *)

Init ==
  /\ prog \in {"v4l2test", "mpptest"}
  /\ pc = IF prog = "v4l2test" THEN "main" ELSE "dlopen"
  /\ dev \in IF prog = "v4l2test" THEN Devices ELSE {NoDevice}
  /\ device \in IF prog = "v4l2test" THEN BOOLEAN ELSE {FALSE}
  /\ fd = -1
  /\ result = -1
  /\ cap = NoCap
  /\ site = "none"
  /\ fmt = NoFmt
  /\ supported = 0
  /\ Mpp = 0
  /\ bound = 0
  /\ i = 0
  /\ mppctx = 0
  /\ calls = <<>>
  /\ out = <<>>
  /\ flushes = 0
  /\ exitStatus = -1

Next ==
  \/ V4L2Main
  \/ V4L2Open
  \/ V4L2QueryCap
  \/ V4L2CheckCaps
  \/ V4L2EnumFmt
  \/ V4L2EnumReturn
  \/ V4L2Flush
  \/ MppDlopen
  \/ MppDlsym
  \/ MppLoop
  \/ MppCheckFormat
  \/ MppInitContext

Spec == Init /\ [][Next]_vars

\* a run is a sequential process: while it has a next step it takes it
LiveSpec == Init /\ [][Next]_vars /\ WF_vars(Next)

----------------------------------------------------------------------------
(* Reading the history *)

Positions(name) == {k \in 1..Len(calls) : calls[k][1] = name}
Count(name) == Cardinality(Positions(name))
Called(name, arg, res) ==
  \E k \in Positions(name) : calls[k][2] = arg /\ calls[k][3] = res
CountOf(name, arg) ==
  Cardinality({k \in Positions(name) : calls[k][2] = arg})
Keys(key) == {k \in 1..Len(out) : out[k].key = key}
Errors == Cardinality(Keys("ERROR"))
OneError(msg) == out = <<Rec("ERROR", msg, 0)>>

CaptureTypes == {V4L2_BUF_TYPE_VIDEO_CAPTURE, V4L2_BUF_TYPE_VIDEO_CAPTURE_MPLANE}
OutputTypes == {V4L2_BUF_TYPE_VIDEO_OUTPUT, V4L2_BUF_TYPE_VIDEO_OUTPUT_MPLANE}
MplaneTypes == {V4L2_BUF_TYPE_VIDEO_CAPTURE_MPLANE, V4L2_BUF_TYPE_VIDEO_OUTPUT_MPLANE}
EnumQueries(types) ==
  {k \in Positions("VIDIOC_ENUM_FMT") : calls[k][2][1] \in types}

Recognized(list) == {k \in 1..Len(list) : list[k] \in {"NV12", "YVU420"}}
V4L2Returned == prog = "v4l2test" /\ device /\ pc \in {"flush", "exit"}
OpenFailed == Called("open", 0, -1)
QueryCapOk == Called("VIDIOC_QUERYCAP", 0, 0)
QueryCapFailed == Called("VIDIOC_QUERYCAP", 0, -1)
M2MDevice ==
  /\ "DEVICE_CAPS" \in dev.capabilities
  /\ "STREAMING" \in dev.device_caps
  /\ dev.device_caps \cap {"VIDEO_M2M", "VIDEO_M2M_MPLANE"} # {}

\* candidate k of the library prober: create, check and init all succeeded
AllOk(k) ==
  /\ Called("mpp_create", mppcodings[k], 0)
  /\ Called("mpp_check_support_format", mppcodings[k], 0)
  /\ Called("mpp_init", mppcodings[k], 0)
OkSet == {k \in 1..4 : AllOk(k)}
MppDone == prog = "mpptest" /\ pc = "exit"
Before(n1, a1, n2, a2) ==
  \E k1 \in Positions(n1), k2 \in Positions(n2) :
    calls[k1][2] = a1 /\ calls[k2][2] = a2 /\ k1 < k2

----------------------------------------------------------------------------
(* The claims *)

\* C1: a device that opens, answers QUERYCAP, reports DEVICE_CAPS, STREAMING
\* and an M2M mode, lists one recognized capture format (NV12 or YVU420) and
\* H264 on the output queue ends with SUPPORTED TRUE, no ERROR record and a
\* hardware-codec bitmask of exactly 16.
C1_H264DeviceIsSupported ==
  ( /\ V4L2Returned
    /\ QueryCapOk
    /\ M2MDevice
    /\ ~dev.endless
    /\ dev.capture \in {<<"NV12">>, <<"YVU420">>}
    /\ dev.output = <<"H264">> )
  => /\ Errors = 0
     /\ Len(out) = 2
     /\ out[1] = Rec("SUPPORTED", "TRUE", 0)
     /\ out[2].key = "HWCODECS" /\ out[2].num = 16

\* C2: the device descriptor is closed exactly once after a successful open
\* and never after a failed one; the library is dlclosed exactly once after
\* a successful dlopen and never after a failed one, on every path to exit.
C2_HandleReleasedOnce ==
  /\ Count("close") <= 1
  /\ Count("dlclose") <= 1
  /\ Count("close") = 1 => fd >= 0 /\ Called("close", 0, fd)
  /\ Count("dlclose") = 1 => Mpp # 0
  /\ (prog = "v4l2test" /\ pc \in {"flush", "exit"})
       => Count("close") = (IF fd >= 0 THEN 1 ELSE 0)
  /\ MppDone => Count("dlclose") = (IF Mpp # 0 THEN 1 ELSE 0)

C2_Witness ==
  /\ prog = "v4l2test" /\ pc = "exit"
  /\ fd >= 0
  /\ Errors = 1
  /\ Count("VIDIOC_ENUM_FMT") >= 1
  /\ Count("close") = 1

\* C3 as stated: the exit status is non-zero whenever open or dlopen failed
\* or a symbol was not resolved, and is 0 only when the probe ran to its
\* result or the device prober showed its usage.
C3_NonZeroOnAcquisitionFailure ==
  pc = "exit" =>
    /\ ((prog = "v4l2test" /\ OpenFailed)
        \/ (prog = "mpptest" /\ (Mpp = 0 \/ bound < 4))) => exitStatus # 0
    /\ exitStatus = 0 => (flushes = 1 /\ Len(out) >= 1)
                         \/ (prog = "v4l2test" /\ ~device)

\* C3 as amended: the library prober exits non-zero exactly when dlopen
\* failed or a symbol was not resolved, and 0 after reporting SUPPORTED and
\* HWCODECS; the device prober exits 0 on every run, also when open failed,
\* having flushed one result unless it showed its usage.
C3_ExitStatusByProgram ==
  pc = "exit" =>
    /\ prog = "mpptest" =>
         /\ exitStatus # 0 <=> (Mpp = 0 \/ bound < 4)
         /\ exitStatus = 0 => (flushes = 1 /\ Keys("SUPPORTED") # {} /\ Errors = 0)
         /\ exitStatus # 0 => (flushes = 1 /\ Errors = 1)
    /\ prog = "v4l2test" =>
         /\ exitStatus = 0
         /\ device => (flushes = 1 /\ Len(out) >= 1)
         /\ ~device => (flushes = 0 /\ out = <<>> /\ calls = <<>>)

C3_Witness ==
  prog = "v4l2test" /\ pc = "exit" /\ OpenFailed /\ exitStatus = 0 /\ Errors = 1

\* C4: with the library loaded and all four symbols resolved, the reported
\* bitmask is the union of the bits 16, 32, 64, 128 of the candidates H264,
\* VP8, VP9, AV1 whose create, check and init all succeeded; every candidate
\* is tried, in this order, whatever happened to the earlier ones; SUPPORTED
\* is TRUE iff the bitmask is not 0; the run has no ERROR record and exits 0.
C4_BitmaskIsUnionOfSupported ==
  (MppDone /\ bound = 4) =>
    LET mask == (IF AllOk(1) THEN 16 ELSE 0) + (IF AllOk(2) THEN 32 ELSE 0)
                + (IF AllOk(3) THEN 64 ELSE 0) + (IF AllOk(4) THEN 128 ELSE 0)
        creates == SelectSeq(calls, LAMBDA c : c[1] = "mpp_create")
    IN  /\ supported = mask
        /\ out = <<Rec("SUPPORTED", IF mask # 0 THEN "TRUE" ELSE "FALSE", 0),
                   Rec("HWCODECS", "", mask)>>
        /\ Errors = 0
        /\ exitStatus = 0
        /\ Len(creates) = 4
        /\ \A k \in 1..4 : creates[k][2] = <<"AVC", "VP8", "VP9", "AV1">>[k]

C4_Witness ==
  /\ MppDone /\ bound = 4
  /\ OkSet = {2, 4}
  /\ Called("mpp_create", "AVC", -1)
  /\ Called("mpp_init", "VP9", -1)
  /\ supported = 160

\* C5: for each candidate, reset and then MppDestroy are each called exactly
\* once, destroy right after reset, with the candidate's bit set, iff create,
\* check and init all succeeded for it; otherwise neither is called, so a
\* context created before a failed check or init stays undestroyed.  For a
\* library supporting exactly VP9 the run makes one reset and one destroy.
C5_ResetDestroyOnlyOnSuccess ==
  prog = "mpptest" =>
    /\ \A k \in 1..4 :
         LET c == mppcodings[k] IN
         /\ CountOf("reset", c) = (IF AllOk(k) THEN 1 ELSE 0)
         /\ CountOf("mpp_destroy", c) = (IF AllOk(k) THEN 1 ELSE 0)
         /\ AllOk(k) =>
              /\ \E p \in Positions("reset") :
                   /\ calls[p][2] = c
                   /\ p > 1 /\ calls[p - 1][1] = "mpp_init"
                   /\ calls[p - 1][2] = c /\ calls[p - 1][3] = 0
                   /\ p < Len(calls) /\ calls[p + 1][1] = "mpp_destroy"
                   /\ calls[p + 1][2] = c
              /\ (supported \div <<16, 32, 64, 128>>[k]) % 2 = 1
    /\ (pc = "exit" /\ OkSet = {3}) =>
         /\ Count("reset") = 1 /\ Count("mpp_destroy") = 1
         /\ Called("reset", "VP9", 0) /\ Called("mpp_destroy", "VP9", 0)

C5_Witness ==
  /\ MppDone /\ OkSet = {3}
  /\ Called("mpp_check_support_format", "AVC", -1)
  /\ Called("mpp_init", "VP8", -1)
  /\ Count("reset") = 1

\* C6: when open fails, QUERYCAP fails, DEVICE_CAPS is absent, no M2M mode is
\* advertised or the capture queue lists no NV12/YVU420, the run records
\* exactly one ERROR and no SUPPORTED/HWCODECS, and makes no query after the
\* rejecting step: no ioctl after a failed open, no format enumeration after
\* a capability rejection, no output-queue query after a capture rejection.
C6_FailFast ==
  V4L2Returned =>
    /\ OpenFailed =>
         /\ OneError("V4L2 failed to open device")
         /\ calls = <<<<"open", 0, -1>>>>
    /\ QueryCapFailed =>
         /\ OneError("V4L2 device failed to query capabilities")
         /\ Count("VIDIOC_ENUM_FMT") = 0
    /\ (QueryCapOk /\ "DEVICE_CAPS" \notin dev.capabilities) =>
         /\ OneError("V4L2 device does not support DEVICE_CAPS")
         /\ Count("VIDIOC_ENUM_FMT") = 0
    /\ (QueryCapOk /\ dev.device_caps \cap {"VIDEO_M2M", "VIDEO_M2M_MPLANE"} = {}) =>
         /\ Errors = 1 /\ Len(out) = 1
         /\ Count("VIDIOC_ENUM_FMT") = 0
    /\ (QueryCapOk /\ M2MDevice /\ Recognized(dev.capture) = {}) =>
         /\ OneError("V4L2 device does not support NV12 or YV12 capture formats")
         /\ EnumQueries(OutputTypes) = {}
         /\ EnumQueries(CaptureTypes) # {}

C6_Witness ==
  /\ V4L2Returned /\ pc = "exit"
  /\ QueryCapOk /\ M2MDevice
  /\ dev.capture = <<"VP8", "H264">>
  /\ dev.output = <<"H264">>
  /\ Errors = 1
  /\ Cardinality(EnumQueries(CaptureTypes)) = 3

\* C7: if dlopen fails the run makes no other call and emits the single
\* ERROR "Can not load mpp library"; if the library loads, the symbols are
\* resolved in the order create, check, init, destroy, and at the first that
\* fails the run emits the single ERROR naming it, resolves no other symbol,
\* dlcloses the library, calls nothing of the library, emits no
\* SUPPORTED/HWCODECS and flushes once.
C7_FatalPath ==
  prog = "mpptest" =>
    /\ LET syms == SelectSeq(calls, LAMBDA c : c[1] = "dlsym")
           order == <<"mpp_create", "mpp_check_support_format", "mpp_init",
                      "mpp_destroy">>
       IN  /\ Len(syms) <= 4
           /\ \A k \in 1..Len(syms) :
                /\ syms[k][2] = order[k]
                /\ k < Len(syms) => syms[k][3] = 1
    /\ (pc = "exit" /\ Mpp = 0) =>
         /\ calls = <<<<"dlopen", 0, 0>>>>
         /\ OneError("Can not load mpp library")
         /\ flushes = 1
    /\ (pc = "exit" /\ Mpp # 0 /\ bound < 4) =>
         /\ OneError("Can not bind " \o <<"MppCreate", "MppCheck", "MppInit",
                                          "MppDestroy">>[bound + 1])
         /\ Len(calls) = bound + 3
         /\ calls[1] = <<"dlopen", 0, 1>>
         /\ \A k \in 1..bound : calls[k + 1][1] = "dlsym" /\ calls[k + 1][3] = 1
         /\ calls[bound + 2][1] = "dlsym" /\ calls[bound + 2][3] = 0
         /\ calls[bound + 3] = <<"dlclose", 0, 0>>
         /\ flushes = 1
         /\ exitStatus # 0

C7_Witness ==
  /\ MppDone /\ Mpp # 0 /\ bound = 2
  /\ OneError("Can not bind MppInit")
  /\ Count("dlclose") = 1

\* C8: an enumeration queries indices 0, 1, 2, ... and stops at the first
\* failing query, which is an end of list: the value returned is the one
\* accumulated from the formats listed before it, positive when NV12, YVU420
\* or H264 was listed and 0 when nothing was recognized.
C8_EnumReturnsAccumulated ==
  (prog = "v4l2test" /\ pc = "enum_ret") =>
    LET list == QueueOf(fmt.type)
        seen == {k \in 1..Len(list) : list[k] \in {"NV12", "YVU420", "H264"}}
    IN  /\ fmt.index = Len(list)
        /\ seen # {} => supported > 0
        /\ seen = {} => supported = 0

\* C9 as stated: every run of either prober exits, whatever the driver does.
C9_EveryRunExits == <>(pc = "exit")

\* C9 as amended: every run of the library prober exits, after exactly four
\* loop iterations when the symbols resolved; a run of the device prober
\* exits provided the driver fails a VIDIOC_ENUM_FMT query at the end of its
\* format list, and an enumeration then makes one query more than the list
\* has formats.
C9_ExitsWhenDriverEndsList ==
  /\ (prog = "mpptest" \/ ~dev.endless) => <>(pc = "exit")
  /\ [](MppDone /\ bound = 4 => i = 4 /\ Count("mpp_create") = 4)
  /\ []((prog = "v4l2test" /\ ~dev.endless) =>
          /\ Cardinality(EnumQueries(CaptureTypes)) <= Len(dev.capture) + 1
          /\ Cardinality(EnumQueries(OutputTypes)) <= Len(dev.output) + 1)
  /\ []((prog = "v4l2test" /\ ~dev.endless /\ pc = "enum_ret" /\ site = "capture") =>
          Cardinality(EnumQueries(CaptureTypes)) = Len(dev.capture) + 1)

C9_Witness ==
  /\ prog = "v4l2test" /\ pc = "exit" /\ ~dev.endless
  /\ Len(dev.capture) = 2
  /\ Cardinality(EnumQueries(CaptureTypes)) = 3

\* C10: a device whose device_caps lack STREAMING is rejected after the
\* DEVICE_CAPS check and before the M2M check, with one ERROR and no format
\* enumeration; a format is enumerated only with DEVICE_CAPS, STREAMING and
\* an M2M bit present, and every enumeration of a run is multi-plane iff
\* M2M_MPLANE is set.
C10_StreamingRequired ==
  prog = "v4l2test" =>
    /\ (V4L2Returned /\ QueryCapOk /\ "DEVICE_CAPS" \in dev.capabilities
        /\ "STREAMING" \notin dev.device_caps) =>
         /\ OneError("V4L2 device does not support V4L2_CAP_STREAMING")
         /\ Count("VIDIOC_ENUM_FMT") = 0
    /\ (V4L2Returned /\ QueryCapOk /\ "DEVICE_CAPS" \notin dev.capabilities) =>
         OneError("V4L2 device does not support DEVICE_CAPS")
    /\ (V4L2Returned /\ QueryCapOk /\ M2MDevice) =>
         Count("VIDIOC_ENUM_FMT") >= 1
    /\ (Count("VIDIOC_ENUM_FMT") > 0 \/ pc \in {"enum", "enum_ret"}) => M2MDevice
    /\ \A k \in Positions("VIDIOC_ENUM_FMT") :
         calls[k][2][1] \in MplaneTypes <=> "VIDEO_M2M_MPLANE" \in dev.device_caps

C10_Witness ==
  /\ V4L2Returned /\ pc = "exit" /\ QueryCapOk
  /\ dev.capabilities = {"DEVICE_CAPS"}
  /\ dev.device_caps = {"VIDEO_M2M", "VIDEO_M2M_MPLANE"}
  /\ OneError("V4L2 device does not support V4L2_CAP_STREAMING")

====
